---------------------------- MODULE Spec2Model ----------------------------
(***************************************************************************)
(* Model of the input surface of the terminal chat client:                 *)
(*   - ui_management::components::InputBox  (the ui_ variables)            *)
(*   - app::InputBox and its submit path    (the app_ variables, pc)       *)
(* A String is modelled as its UTF-8 storage: a sequence of bytes, each    *)
(* byte written <<c, k>> = the k-th byte of the encoding of character c.   *)
(***************************************************************************)
EXTENDS Integers, Sequences, FiniteSets, TLC

\* ------------------------------------------------------------------ bounds
\* Largest number of characters a buffer holds in the model.
MaxLen == 3
\* Largest number of characters of a string handed to set_text.
MaxSetLen == 2
\* Largest number of characters typed into the app InputBox in the model.
AppMaxLen == 2
\* Largest number of submits (writes through the CommandWriter) in the model.
MaxSubmits == 2

\* ------------------------------------------------------- characters, String
\* Four characters, one per UTF-8 storage width:
\*   "a"     U+0061  1 byte,  display width 1
\*   "acute" U+0301  2 bytes, display width 0 (combining mark)
\*   "han"   U+D55C  3 bytes, display width 2
\*   "emoji" U+1F600 4 bytes, display width 2
Char == {"a", "acute", "han", "emoji"}

\* char::len_utf8, as used by String::insert
len_utf8(c) ==
    CASE c = "a" -> 1
      [] c = "b" -> 1
      [] c = "acute" -> 2
      [] c = "han" -> 3
      [] c = "emoji" -> 4

\* UnicodeWidthChar::width(c).unwrap_or(0)
width(c) ==
    CASE c = "a" -> 1
      [] c = "b" -> 1
      [] c = "acute" -> 0
      [] c = "han" -> 2
      [] c = "emoji" -> 2

\* The UTF-8 encoding of one character.
encode_utf8(c) == [k \in 1..len_utf8(c) |-> <<c, k>>]

IsLeadByte(b) == b[2] = 1

\* str::is_char_boundary (index counted in bytes, from 0)
is_char_boundary(s, index) ==
    \/ index = 0
    \/ index = Len(s)
    \/ index < Len(s) /\ IsLeadByte(s[index + 1])

\* str::char_indices: the <<byte offset, character>> pairs of s, in order.
char_indices(s) ==
    LET offs == SelectSeq([i \in 1..Len(s) |-> i], LAMBDA i : IsLeadByte(s[i]))
    IN  [n \in 1..Len(offs) |-> <<offs[n] - 1, s[offs[n]][1]>>]

\* str::chars: the characters of s, in order.
chars(s) == [n \in 1..Len(char_indices(s)) |-> char_indices(s)[n][2]]

\* Iterator::collect::<String>() of a sequence of characters.
RECURSIVE collect(_)
collect(cs) ==
    IF cs = <<>> THEN <<>> ELSE encode_utf8(Head(cs)) \o collect(Tail(cs))

\* Iterator::take / Iterator::skip
take(cs, n) == SubSeq(cs, 1, IF n < Len(cs) THEN n ELSE Len(cs))
skip(cs, n) == SubSeq(cs, n + 1, Len(cs))

\* String::insert(idx, ch): panics unless idx is a char boundary of s.
StringInsert(s, idx, ch) ==
    IF is_char_boundary(s, idx) /\ idx <= Len(s)
    THEN [panicked |-> FALSE,
          text |-> SubSeq(s, 1, idx) \o encode_utf8(ch) \o SubSeq(s, idx + 1, Len(s))]
    ELSE [panicked |-> TRUE, text |-> s]

\* usize::saturating_sub(1); usize::saturating_add(1) (lengths stay far
\* below usize::MAX, so the upper saturation is never met).
saturating_sub_1(n) == IF n = 0 THEN 0 ELSE n - 1
saturating_add_1(n) == n + 1

\* Ord::clamp(lo, hi)
clamp(n, lo, hi) == IF n < lo THEN lo ELSE IF n > hi THEN hi ELSE n

\* All strings of at most n characters.
RECURSIVE CharSeqs(_)
CharSeqs(n) ==
    IF n = 0 THEN {<<>>}
    ELSE CharSeqs(n - 1) \cup
         {Append(cs, c) : cs \in {x \in CharSeqs(n - 1) : Len(x) = n - 1}, c \in Char}

\* The strings handed to set_text.
Strings == {collect(cs) : cs \in CharSeqs(MaxSetLen)}

\* ------------------------------------------------------------- key events
KeyEventKind == {"Press", "Release", "Repeat"}
NoChar == "none"
KeyCode ==
    [code : {"Enter", "Backspace", "Left", "Right", "Esc"}, ch : {NoChar}]
    \cup [code : {"Char"}, ch : Char]
KeyEvent == [kind : KeyEventKind, code : KeyCode]

Press(code, ch) == [kind |-> "Press", code |-> [code |-> code, ch |-> ch]]

VARIABLES
    ui_text,             \* ui_management InputBox.text (UTF-8 bytes)
    ui_cursor_position,  \* ui_management InputBox.cursor_position
    ui_panicked,         \* a String::insert of the ui InputBox panicked
    ui_last_op,          \* history: the last operation applied to the ui InputBox
    ui_prev_op,          \* history: the operation applied before ui_last_op
    ui_snapshot,         \* history: <<text, cursor>> before the last key event
    app_text,            \* app InputBox.text (UTF-8 bytes)
    app_cursor_position, \* app InputBox.cursor_position
    app_panicked,        \* a String::insert of the app InputBox panicked
    active_room,         \* SharedState.active_room (NoRoom = None)
    active_section,      \* App.active_section (NoSection = None)
    pc,                  \* position of the key-handling task
    app_key,             \* the key event being handled (NoKey when idle)
    handled,             \* value returned by handle_key_event, not yet consumed
    in_flight,           \* the command of the outstanding write (NoCommand if none)
    writes_issued,       \* number of CommandWriter::write calls made
    enters_with_room,    \* history: Press-Enter events handled with a room present
    write_result,        \* history: result of the write completed in this handling
    completed,           \* history: the command of that completed write
    writes_completed,    \* number of CommandWriter::write calls that completed
    last_hovered_section, \* App.last_hovered_section
    in_step,             \* history: both input boxes were fed the same plain keys
    deactivated_text     \* history: the app InputBox held text when it last lost the focus

ui_vars == <<ui_text, ui_cursor_position, ui_panicked, ui_last_op, ui_prev_op,
             ui_snapshot>>
app_vars == <<app_text, app_cursor_position, app_panicked, active_room,
              active_section, pc, app_key, handled, in_flight, writes_issued,
              enters_with_room, write_result, completed, writes_completed,
              last_hovered_section, deactivated_text>>
vars == <<ui_text, ui_cursor_position, ui_panicked, ui_last_op, ui_prev_op,
          ui_snapshot, app_text, app_cursor_position, app_panicked, active_room,
          active_section, pc, app_key, handled, in_flight, writes_issued,
          enters_with_room, write_result, completed, writes_completed,
          last_hovered_section, in_step, deactivated_text>>

\* ------------------------------------------- ui_management::InputBox (pure)
\* A buffer value b is a record [text, cursor_position, panicked].
ui_get_max_cursor_position(b) == Len(char_indices(b.text))

\* Faulty variant: the cursor is clamped to the byte length of the text.
ui_clamp_cursor_bytes(b, new_cursor_pos) == clamp(new_cursor_pos, 0, Len(b.text))

ui_clamp_cursor(b, new_cursor_pos) ==
    clamp(new_cursor_pos, 0, ui_get_max_cursor_position(b))

ui_set_text(b, new_text) ==
    LET b1 == [b EXCEPT !.text = new_text]
    IN  [b1 EXCEPT !.cursor_position = ui_get_max_cursor_position(b1)]

ui_reset(b) == [b EXCEPT !.cursor_position = 0, !.text = <<>>]

\* Faulty variant: wrapping instead of saturating at 0.
ui_move_cursor_left_wrapping(b) ==
    [b EXCEPT !.cursor_position =
        IF b.cursor_position = 0 THEN ui_get_max_cursor_position(b)
        ELSE b.cursor_position - 1]

ui_move_cursor_left(b) ==
    [b EXCEPT !.cursor_position =
        ui_clamp_cursor(b, saturating_sub_1(b.cursor_position))]

ui_move_cursor_right(b) ==
    [b EXCEPT !.cursor_position =
        ui_clamp_cursor(b, saturating_add_1(b.cursor_position))]

\* Faulty variant: the codepoint position used as a byte offset.
ui_get_cursor_byte_index_raw(b) == b.cursor_position

ui_get_cursor_byte_index(b) ==
    IF b.cursor_position < Len(char_indices(b.text))
    THEN char_indices(b.text)[b.cursor_position + 1][1]
    ELSE Len(b.text)

\* Faulty variant: the character is inserted but the cursor is not advanced.
ui_enter_char_no_advance(b, new_char) ==
    LET ins == StringInsert(b.text, ui_get_cursor_byte_index(b), new_char)
    IN  IF ins.panicked THEN [b EXCEPT !.panicked = TRUE]
        ELSE [b EXCEPT !.text = ins.text]

ui_enter_char(b, new_char) ==
    LET ins == StringInsert(b.text, ui_get_cursor_byte_index(b), new_char)
    IN  IF ins.panicked THEN [b EXCEPT !.panicked = TRUE]
        ELSE ui_move_cursor_right([b EXCEPT !.text = ins.text])

\* Faulty variant: removes the character at the cursor, not the one before it.
ui_delete_char_at_cursor(b) ==
    IF b.cursor_position # 0
    THEN ui_move_cursor_left(
            [b EXCEPT !.text = collect(take(chars(b.text), b.cursor_position)
                                       \o skip(chars(b.text), b.cursor_position + 1))])
    ELSE b

ui_delete_char(b) ==
    IF b.cursor_position # 0
    THEN LET current_index == b.cursor_position
             from_left_to_current_index == current_index - 1
             before_char_to_delete == take(chars(b.text), from_left_to_current_index)
             after_char_to_delete == skip(chars(b.text), current_index)
         IN  ui_move_cursor_left(
                [b EXCEPT !.text = collect(before_char_to_delete \o after_char_to_delete)])
    ELSE b

\* The loop of get_cursor_offset_in_terminal from character i (0-based) on,
\* with the u16 accumulator cursor_offset.
RECURSIVE cursor_offset_loop(_, _, _, _)
cursor_offset_loop(cs, i, cursor_position, cursor_offset) ==
    IF i >= Len(cs) \/ i = cursor_position THEN cursor_offset
    ELSE cursor_offset_loop(cs, i + 1, cursor_position,
                            (cursor_offset + width(cs[i + 1])) % 65536)

\* Faulty variant: the widths of the characters from the cursor on are summed.
ui_get_cursor_offset_in_terminal_after(b) ==
    cursor_offset_loop(skip(chars(b.text), b.cursor_position), 0,
                       Len(chars(b.text)), 0)

\* Faulty variant: the codepoint position taken as the terminal column.
ui_get_cursor_offset_in_terminal_by_index(b) == b.cursor_position

ui_get_cursor_offset_in_terminal(b) ==
    cursor_offset_loop(chars(b.text), 0, b.cursor_position, 0)

\* Faulty variant: the kind of the key event is not looked at.
ui_handle_key_event_any_kind(b, key) ==
    CASE key.code.code = "Char" -> ui_enter_char(b, key.code.ch)
      [] key.code.code = "Backspace" -> ui_delete_char(b)
      [] key.code.code = "Left" -> ui_move_cursor_left(b)
      [] key.code.code = "Right" -> ui_move_cursor_right(b)
      [] OTHER -> b

ui_handle_key_event(b, key) ==
    IF key.kind # "Press" THEN b
    ELSE CASE key.code.code = "Char" -> ui_enter_char(b, key.code.ch)
           [] key.code.code = "Backspace" -> ui_delete_char(b)
           [] key.code.code = "Left" -> ui_move_cursor_left(b)
           [] key.code.code = "Right" -> ui_move_cursor_right(b)
           [] OTHER -> b

\* ------------------------------------------ ui_management::InputBox (state)
UiBuf == [text |-> ui_text, cursor_position |-> ui_cursor_position,
          panicked |-> ui_panicked]

UiBecomes(b) ==
    /\ ui_text' = b.text
    /\ ui_cursor_position' = b.cursor_position
    /\ ui_panicked' = b.panicked

NoSnapshot == <<>>
OpNew == "new"
OpSetText == "set_text"
OpReset == "reset"
\* The name under which a key event is recorded in the history.
OpKey(key) == IF key.kind # "Press" THEN "NotPress" ELSE key.code.code

\* Component::new
UiInit ==
    /\ ui_text = <<>>
    /\ ui_cursor_position = 0
    /\ ui_panicked = FALSE
    /\ ui_last_op = [op |-> OpNew, ch |-> NoChar]
    /\ ui_prev_op = OpNew
    /\ ui_snapshot = NoSnapshot
    /\ in_step = TRUE

UiSetText ==
    \E s \in Strings :
        /\ ~ui_panicked
        /\ UiBecomes(ui_set_text(UiBuf, s))
        /\ ui_last_op' = [op |-> OpSetText, ch |-> NoChar]
        /\ ui_prev_op' = ui_last_op.op
        /\ ui_snapshot' = NoSnapshot
        /\ in_step' = FALSE
        /\ UNCHANGED app_vars

UiReset ==
    /\ ~ui_panicked
    /\ UiBecomes(ui_reset(UiBuf))
    /\ ui_last_op' = [op |-> OpReset, ch |-> NoChar]
    /\ ui_prev_op' = ui_last_op.op
    /\ ui_snapshot' = NoSnapshot
    /\ in_step' = FALSE
    /\ UNCHANGED app_vars

\* handle_key_event of the ui InputBox on key event key.
UiKey(key) ==
    /\ ~ui_panicked
    /\ OpKey(key) = "Char" => Len(chars(ui_text)) < MaxLen
    /\ UiBecomes(ui_handle_key_event(UiBuf, key))
    /\ ui_last_op' = [op |-> OpKey(key), ch |-> key.code.ch]
    /\ ui_prev_op' = ui_last_op.op
    /\ ui_snapshot' = <<ui_text, ui_cursor_position>>

UiHandleKeyEvent ==
    \E key \in KeyEvent :
        /\ UiKey(key)
        /\ in_step' = FALSE
        /\ UNCHANGED app_vars

NextUi == UiSetText \/ UiReset \/ UiHandleKeyEvent


\* ------------------------------------------------------ app::InputBox (pure)
Rooms == {"general", "random"}
NoRoom == "None"
NoSection == "None"
Sections == {"RoomList", "MessageInput"}
NoKey == [kind |-> "none", code |-> [code |-> "none", ch |-> NoChar]]
NoCommand == [room |-> NoRoom, content |-> <<>>]
WriteResults == {"Ok", "Err"}

\* command::UserCommand::SendMessage(SendMessageCommand { room, content })
SendMessage(room, content) == [room |-> room, content |-> content]

app_clamp_cursor(b, new_cursor_pos) == clamp(new_cursor_pos, 0, Len(b.text))

app_reset_cursor(b) == [b EXCEPT !.cursor_position = 0]

app_move_cursor_left(b) ==
    [b EXCEPT !.cursor_position =
        app_clamp_cursor(b, saturating_sub_1(b.cursor_position))]

app_move_cursor_right(b) ==
    [b EXCEPT !.cursor_position =
        app_clamp_cursor(b, saturating_add_1(b.cursor_position))]

\* Faulty variant: the character is always appended at the end of the text.
app_enter_char_at_end(b, new_char) ==
    app_move_cursor_right([b EXCEPT !.text = b.text \o encode_utf8(new_char)])

app_enter_char(b, new_char) ==
    LET ins == StringInsert(b.text, b.cursor_position, new_char)
    IN  IF ins.panicked THEN [b EXCEPT !.panicked = TRUE]
        ELSE app_move_cursor_right([b EXCEPT !.text = ins.text])

app_delete_char(b) ==
    IF b.cursor_position # 0
    THEN LET current_index == b.cursor_position
             from_left_to_current_index == current_index - 1
             before_char_to_delete == take(chars(b.text), from_left_to_current_index)
             after_char_to_delete == skip(chars(b.text), current_index)
         IN  app_move_cursor_left(
                [b EXCEPT !.text = collect(before_char_to_delete \o after_char_to_delete)])
    ELSE b

\* WidgetHandler::activate
app_activate(b) == b

\* Faulty variant: the cursor is reset but the text is kept.
app_deactivate_keeps_text(b) == [b EXCEPT !.cursor_position = 0]

\* Faulty variant: the text is cleared but the cursor is kept.
app_deactivate_keeps_cursor(b) == [b EXCEPT !.text = <<>>]

\* WidgetHandler::deactivate
app_deactivate(b) == [b EXCEPT !.cursor_position = 0, !.text = <<>>]

\* Faulty variant: the content is taken after the buffer was cleared.
submit_message_command_cleared(b, room) == SendMessage(room, <<>>)

\* submit_message, up to the await: the command handed to CommandWriter::write.
submit_message_command(b, room) == SendMessage(room, b.text)

\* Faulty variant: the buffer is cleared only when the write succeeded.
submit_message_resume_on_ok(b, result) ==
    IF result = "Ok" THEN app_reset_cursor([b EXCEPT !.text = <<>>]) ELSE b

\* submit_message, after the await: the result is dropped, the buffer cleared.
submit_message_resume(b, result) == app_reset_cursor([b EXCEPT !.text = <<>>])

\* Faulty variant: every kind of key event is acted upon.
is_press_any_kind(k) == TRUE

\* handle_key_event's first test: only Press events are acted upon.
is_press(k) == k.kind = "Press"

\* Faulty variant: Enter without a room keeps the focus.
enter_returns_ok_without_room(room) == IF room = NoRoom THEN "Ok" ELSE "LoseFocus"

\* The value the Enter arm of handle_key_event returns.
enter_returns(room) == "LoseFocus"

\* handle_key_event up to its first suspension point or its return:
\* [buf, write, handled], write being the command whose write is awaited
\* (NoCommand when the handler returns without suspending).
app_handle_key_event(b, room, k) ==
    IF ~is_press(k) THEN [buf |-> b, write |-> NoCommand, handled |-> "Ok"]
    ELSE CASE k.code.code = "Enter" ->
                [buf |-> b,
                 write |-> IF room # NoRoom THEN submit_message_command(b, room)
                           ELSE NoCommand,
                 handled |-> enter_returns(room)]
           [] k.code.code = "Char" ->
                [buf |-> app_enter_char(b, k.code.ch), write |-> NoCommand,
                 handled |-> "Ok"]
           [] k.code.code = "Backspace" ->
                [buf |-> app_delete_char(b), write |-> NoCommand, handled |-> "Ok"]
           [] k.code.code = "Left" ->
                [buf |-> app_move_cursor_left(b), write |-> NoCommand, handled |-> "Ok"]
           [] k.code.code = "Right" ->
                [buf |-> app_move_cursor_right(b), write |-> NoCommand, handled |-> "Ok"]
           [] OTHER -> [buf |-> b, write |-> NoCommand, handled |-> "Ok"]

\* -------------------------------------------------------------- cli::ui (pure)
\* Faulty variant: the hovered section is tested before the active one.
calculate_border_color_hover_first(active, last_hovered, section) ==
    IF last_hovered = section THEN "Blue"
    ELSE IF active # NoSection /\ active = section THEN "Yellow"
    ELSE "Reset"

\* App::calculate_border_color: the match arms, in order.
calculate_border_color(active, last_hovered, section) ==
    IF active # NoSection /\ active = section THEN "Yellow"
    ELSE IF last_hovered = section THEN "Blue"
    ELSE "Reset"

NoCursor == [set |-> FALSE, x |-> 0]

\* render_app_too_frame: the column handed to frame.set_cursor (u16), if any.
render_app_too_frame_cursor(active, b, container_input_x) ==
    IF active = "MessageInput"
    THEN [set |-> TRUE,
          x |-> (container_input_x + (b.cursor_position % 65536) + 1) % 65536]
    ELSE NoCursor

\* InputBox::render (ui_management): the column handed to frame.set_cursor.
ui_render_cursor(b, area_x, show_cursor) ==
    IF show_cursor
    THEN [set |-> TRUE,
          x |-> (area_x + ui_get_cursor_offset_in_terminal(b) + 1) % 65536]
    ELSE NoCursor

\* The x coordinates of the input rectangle drawn in the model.
RectX == {0, 16}

\* ----------------------------------------------------- app::InputBox (state)
AppBuf == [text |-> app_text, cursor_position |-> app_cursor_position,
           panicked |-> app_panicked]

AppBecomes(b) ==
    /\ app_text' = b.text
    /\ app_cursor_position' = b.cursor_position
    /\ app_panicked' = b.panicked

\* InputBox::new, with the application unfocused and no room selected.
AppInit ==
    /\ app_text = <<>>
    /\ app_cursor_position = 0
    /\ app_panicked = FALSE
    /\ active_room = NoRoom
    /\ active_section = NoSection
    /\ pc = "idle"
    /\ app_key = NoKey
    /\ handled = "none"
    /\ in_flight = NoCommand
    /\ writes_issued = 0
    /\ enters_with_room = 0
    /\ write_result = "none"
    /\ completed = NoCommand
    /\ writes_completed = 0
    /\ last_hovered_section \in Sections
    /\ deactivated_text = FALSE

\* The application focuses a section and activates its widget.
AppActivateSection ==
    \E s \in Sections :
        /\ pc = "idle"
        /\ active_section = NoSection
        /\ active_section' = s
        /\ AppBecomes(IF s = "MessageInput" THEN app_activate(AppBuf) ELSE AppBuf)
        /\ UNCHANGED <<active_room, pc, app_key, handled, in_flight, writes_issued,
                       enters_with_room, write_result, completed, writes_completed,
                       last_hovered_section, in_step, deactivated_text>>
        /\ UNCHANGED ui_vars

\* The room list, while focused, sets the active room.
RoomListSelectRoom ==
    \E r \in Rooms :
        /\ pc = "idle"
        /\ active_section = "RoomList"
        /\ active_room' = r
        /\ UNCHANGED <<app_text, app_cursor_position, app_panicked, active_section,
                       pc, app_key, handled, in_flight, writes_issued,
                       enters_with_room, write_result, completed, writes_completed,
                       last_hovered_section, in_step, deactivated_text>>
        /\ UNCHANGED ui_vars

\* The room list gives up the focus.
RoomListLoseFocus ==
    /\ pc = "idle"
    /\ active_section = "RoomList"
    /\ active_section' = NoSection
    /\ UNCHANGED <<app_text, app_cursor_position, app_panicked, active_room,
                   pc, app_key, handled, in_flight, writes_issued,
                   enters_with_room, write_result, completed, writes_completed,
                   last_hovered_section, in_step, deactivated_text>>
    /\ UNCHANGED ui_vars

\* Faulty variant: a key event is also taken up while a write is awaited.
task_ready_while_writing == pc \in {"idle", "writing"}

\* The key-handling task is not inside handle_key_event: the handler borrows
\* the widget (&mut self) until it returns, its await included.
task_ready == pc = "idle"

\* A key event k is routed to the focused input box: handle_key_event runs
\* to its return, to the await of the write, or to a panic.
AppKey(k) ==
    LET r == app_handle_key_event(AppBuf, active_room, k)
    IN  /\ task_ready
        /\ active_section = "MessageInput"
        /\ (is_press(k) /\ k.code.code = "Char") => Len(chars(app_text)) < AppMaxLen
        /\ r.write # NoCommand => writes_issued < MaxSubmits
        /\ AppBecomes(r.buf)
        /\ app_key' = k
        /\ in_flight' = r.write
        /\ writes_issued' = IF r.write # NoCommand THEN writes_issued + 1
                            ELSE writes_issued
        /\ enters_with_room' = IF k = Press("Enter", NoChar) /\ active_room # NoRoom
                               THEN enters_with_room + 1 ELSE enters_with_room
        /\ pc' = IF r.buf.panicked THEN "panicked"
                 ELSE IF r.write # NoCommand THEN "writing" ELSE "returned"
        /\ handled' = IF r.buf.panicked \/ r.write # NoCommand THEN "none"
                      ELSE r.handled
        /\ UNCHANGED <<active_room, active_section, write_result, completed,
                       writes_completed, last_hovered_section, deactivated_text>>

AppHandleKeyEvent ==
    \E k \in KeyEvent :
        /\ AppKey(k)
        /\ in_step' = FALSE
        /\ UNCHANGED ui_vars

\* The awaited write completes with Ok or Err; submit_message resumes and
\* handle_key_event returns.
AppWriteCompletes ==
    \E result \in WriteResults :
        /\ pc = "writing"
        /\ AppBecomes(submit_message_resume(AppBuf, result))
        /\ in_flight' = NoCommand
        /\ write_result' = result
        /\ completed' = in_flight
        /\ handled' = enter_returns(active_room)
        /\ pc' = "returned"
        /\ writes_completed' = writes_completed + 1
        /\ UNCHANGED <<active_room, active_section, app_key, writes_issued,
                       enters_with_room, last_hovered_section, in_step,
                       deactivated_text>>
        /\ UNCHANGED ui_vars

\* The application consumes the handler's return value: on LoseFocus it
\* deactivates the widget and unfocuses.
AppAfterKeyEvent ==
    /\ pc = "returned"
    /\ AppBecomes(IF handled = "LoseFocus" THEN app_deactivate(AppBuf) ELSE AppBuf)
    /\ active_section' = IF handled = "LoseFocus" THEN NoSection ELSE active_section
    /\ pc' = "idle"
    /\ app_key' = NoKey
    /\ handled' = "none"
    /\ write_result' = "none"
    /\ completed' = NoCommand
    /\ deactivated_text' = IF handled = "LoseFocus" THEN app_text # <<>>
                           ELSE deactivated_text
    /\ UNCHANGED <<active_room, in_flight, writes_issued, enters_with_room,
                   writes_completed, last_hovered_section, in_step>>
    /\ UNCHANGED ui_vars

\* The application takes the focus away from the input box.
AppDeactivate ==
    /\ pc = "idle"
    /\ active_section = "MessageInput"
    /\ AppBecomes(app_deactivate(AppBuf))
    /\ active_section' = NoSection
    /\ in_step' = FALSE
    /\ deactivated_text' = (app_text # <<>>)
    /\ UNCHANGED <<active_room, pc, app_key, handled, in_flight, writes_issued,
                   enters_with_room, write_result, completed, writes_completed,
                   last_hovered_section>>
    /\ UNCHANGED ui_vars

\* While no section is focused, another section becomes the hovered one.
AppHover ==
    \E s \in Sections \ {last_hovered_section} :
        /\ pc = "idle"
        /\ active_section = NoSection
        /\ last_hovered_section' = s
        /\ UNCHANGED <<app_text, app_cursor_position, app_panicked, active_room,
                       active_section, pc, app_key, handled, in_flight,
                       writes_issued, enters_with_room, write_result, completed,
                       writes_completed, in_step, deactivated_text>>
        /\ UNCHANGED ui_vars

\* ------------------------------------------------- both input boxes in step
\* The characters typed in the comparison of the two input boxes: two stored
\* in one byte ("a", and "b" = U+0062, display width 1) and one in two.
PlainChar == {"a", "b"}
PairChar == PlainChar \cup {"acute"}

\* The key events fed to both boxes: every kind of every key code but the
\* Press of Enter, which only the app InputBox acts upon.
PairKeyEvent ==
    [kind : KeyEventKind,
     code : [code : {"Enter", "Backspace", "Left", "Right", "Esc"}, ch : {NoChar}]
            \cup [code : {"Char"}, ch : PairChar]]
    \ {Press("Enter", NoChar)}

\* A Press of a Char stored in more than one byte.
IsWideChar(k) ==
    k.kind = "Press" /\ k.code.code = "Char" /\ k.code.ch \notin PlainChar

\* The same key event is handled by both input boxes.  in_step records that
\* both boxes started empty and no Char of more than one byte was typed since;
\* the comparison stops after the first such Char.
PairHandleKeyEvent ==
    \E k \in PairKeyEvent :
        /\ in_step
        /\ UiKey(k)
        /\ AppKey(k)
        /\ in_step' = ~IsWideChar(k)

NextPair ==
    \/ AppActivateSection
    \/ RoomListSelectRoom
    \/ RoomListLoseFocus
    \/ PairHandleKeyEvent
    \/ AppAfterKeyEvent

NextApp ==
    \/ AppActivateSection
    \/ RoomListSelectRoom
    \/ RoomListLoseFocus
    \/ AppHandleKeyEvent
    \/ AppWriteCompletes
    \/ AppAfterKeyEvent
    \/ AppDeactivate
    \/ AppHover

\* ---------------------------------------------------------- specifications
Init == UiInit /\ AppInit

Next == NextUi \/ NextApp

\* Both input boxes.
Spec == Init /\ [][Next]_vars

\* The ui_management InputBox alone.
SpecUi == Init /\ [][NextUi]_vars

\* The app InputBox and its submit path.
SpecApp == Init /\ [][NextApp]_vars

\* Both input boxes, fed the same key events.
SpecPair == Init /\ [][NextPair]_vars

\* The same, where an outstanding write completes and a returned handler's
\* value is consumed by the application.
SpecAppFair ==
    /\ Init
    /\ [][NextApp]_vars
    /\ WF_vars(AppWriteCompletes)
    /\ WF_vars(AppAfterKeyEvent)

\* ======================================================== properties (ui)
RECURSIVE SumWidths(_)
SumWidths(cs) == IF cs = <<>> THEN 0 ELSE width(Head(cs)) + SumWidths(Tail(cs))

LastKeyIs(code) == ui_last_op.op = code
SnapText == ui_snapshot[1]
SnapCursor == ui_snapshot[2]
WellFormed(s) == s = collect(chars(s))

\* t[0..n] and t[n..] of a codepoint sequence t.
Before(t, n) == SubSeq(t, 1, IF n < Len(t) THEN n ELSE Len(t))
From(t, n) == SubSeq(t, n + 1, Len(t))

\* What insert_char(c) is to yield from codepoints t and cursor p.
EnterCharPost(t, p, c, text2, cursor2, panicked2) ==
    /\ ~panicked2
    /\ text2 = collect(Before(t, p) \o <<c>> \o From(t, p))
    /\ cursor2 = p + 1

\* What delete_char_before_cursor is to yield from text s and cursor p.
DeleteCharPost(s, p, text2, cursor2) ==
    IF p = 0
    THEN text2 = s /\ cursor2 = 0
    ELSE /\ text2 = collect(Before(chars(s), p - 1) \o From(chars(s), p))
         /\ Len(chars(text2)) = Len(chars(s)) - 1
         /\ WellFormed(text2)
         /\ cursor2 = p - 1

\* What move_left / move_right are to yield from text s and cursor p.
MoveLeftPost(s, p, text2, cursor2) ==
    text2 = s /\ cursor2 = IF p = 0 THEN 0 ELSE p - 1
MoveRightPost(s, p, text2, cursor2) ==
    text2 = s /\ cursor2 = IF p = Len(chars(s)) THEN p ELSE p + 1

\* C1: in every reachable state of the ui InputBox,
\* 0 <= cursor_position <= number of codepoints of text.
C1_CursorWithinCodepoints ==
    /\ ui_cursor_position \in 0..Len(chars(ui_text))
    /\ ~ui_panicked

\* C1 witness: move_cursor_right was applied with the cursor at the end of a
\* text that holds a multi-byte character (codepoint count < byte length).
C1_Witness ==
    /\ LastKeyIs("Right")
    /\ SnapCursor = Len(chars(SnapText))
    /\ Len(chars(ui_text)) < Len(ui_text)
    /\ ui_cursor_position = Len(chars(ui_text))

\* The ui InputBox meets the contract of insert_char (C6): enter_char(c) on
\* codepoints t with cursor p yields t[0..p] ++ <c> ++ t[p..] and cursor p + 1.
Ui_EnterCharAtCodepoint ==
    [][ui_last_op'.op = "Char" =>
        EnterCharPost(chars(ui_text), ui_cursor_position, ui_last_op'.ch,
                      ui_text', ui_cursor_position', ui_panicked')]_vars

\* C6: insert_char(c) (enter_char) on codepoints t with cursor p in 0..len(t)
\* yields t[0..p] ++ <c> ++ t[p..] and cursor p + 1, the insertion point being
\* the storage offset of codepoint position p; stated of app::InputBox.
C6_EnterCharAtCodepoint ==
    [][(pc = "idle" /\ is_press(app_key') /\ app_key'.code.code = "Char"
        /\ app_cursor_position <= Len(chars(app_text))) =>
        EnterCharPost(chars(app_text), app_cursor_position, app_key'.code.ch,
                      app_text', app_cursor_position', app_panicked')]_vars

\* The ui InputBox meets the contract of delete_char_before_cursor (C7).
Ui_DeleteCharBeforeCursor ==
    [][ui_last_op'.op = "Backspace" =>
        DeleteCharPost(ui_text, ui_cursor_position,
                       ui_text', ui_cursor_position')]_vars

\* C7: delete_char at cursor 0 changes nothing; at cursor p > 0 it yields
\* t[0..p-1] ++ t[p..] and cursor p - 1, removing exactly one codepoint;
\* stated of app::InputBox.
C7_DeleteCharBeforeCursor ==
    [][(pc = "idle" /\ is_press(app_key') /\ app_key'.code.code = "Backspace") =>
        DeleteCharPost(app_text, app_cursor_position,
                       app_text', app_cursor_position')]_vars

\* C8: enter_char(c) immediately followed by delete_char restores the
\* (text, cursor_position) held before the enter_char.
C8_InsertDeleteRoundTrip ==
    [][(ui_last_op.op = "Char" /\ ui_last_op'.op = "Backspace") =>
        <<ui_text', ui_cursor_position'>> = ui_snapshot]_vars

\* C8 witness: a delete_char directly after an enter_char of a multi-byte
\* character that was inserted at cursor 0 of a non-empty text.
C8_Witness ==
    /\ LastKeyIs("Backspace")
    /\ ui_prev_op = "Char"
    /\ SnapCursor = 1
    /\ len_utf8(chars(SnapText)[1]) > 1
    /\ Len(chars(SnapText)) > 1
    /\ ui_cursor_position = 0

\* The ui InputBox meets the contract of move_left / move_right (C9).
Ui_MoveSaturates ==
    [][/\ ui_last_op'.op = "Left" =>
            MoveLeftPost(ui_text, ui_cursor_position, ui_text', ui_cursor_position')
       /\ ui_last_op'.op = "Right" =>
            MoveRightPost(ui_text, ui_cursor_position, ui_text', ui_cursor_position')
      ]_vars

\* C9: move_left / move_right leave text unchanged and move the cursor by
\* exactly one, except at 0 (left) and at the codepoint count (right), where
\* the whole state is unchanged; stated of app::InputBox.
C9_MoveSaturates ==
    [][/\ (pc = "idle" /\ is_press(app_key') /\ app_key'.code.code = "Left") =>
            MoveLeftPost(app_text, app_cursor_position,
                         app_text', app_cursor_position')
       /\ (pc = "idle" /\ is_press(app_key') /\ app_key'.code.code = "Right") =>
            MoveRightPost(app_text, app_cursor_position,
                          app_text', app_cursor_position')]_vars

\* C10: get_cursor_offset_in_terminal is the sum of the display widths of
\* the first cursor_position codepoints; with a width-2 character followed
\* by an ASCII character and cursor_position = 1 it is 2.
C10_CursorOffsetIsWidthSum ==
    /\ ui_get_cursor_offset_in_terminal(UiBuf)
         = SumWidths(SubSeq(chars(ui_text), 1, ui_cursor_position))
    /\ (chars(ui_text) = <<"han", "a">> /\ ui_cursor_position = 1)
         => ui_get_cursor_offset_in_terminal(UiBuf) = 2

\* C10 witness: the buffer holds a wide character then an ASCII character,
\* with the cursor after the wide character.
C10_Witness ==
    /\ chars(ui_text) = <<"han", "a">>
    /\ ui_cursor_position = 1
    /\ ui_get_cursor_offset_in_terminal(UiBuf) = 2

\* C11: for a fixed text the terminal offset of the cursor is non-decreasing
\* in cursor_position: each move_cursor_right changes it by 0, 1 or 2.
C11_OffsetMonotone ==
    [][ui_last_op'.op = "Right" =>
        /\ ui_text' = ui_text
        /\ ui_get_cursor_offset_in_terminal(
              [text |-> ui_text', cursor_position |-> ui_cursor_position',
               panicked |-> ui_panicked'])
           - ui_get_cursor_offset_in_terminal(UiBuf) \in {0, 1, 2}]_vars

\* C11 witness: move_cursor_right stepped over a zero-width character that
\* follows a wide one (the offset stayed at 2).
C11_Witness ==
    /\ LastKeyIs("Right")
    /\ SnapCursor = 1
    /\ ui_cursor_position = 2
    /\ chars(ui_text) = <<"han", "acute", "a">>
    /\ ui_get_cursor_offset_in_terminal(UiBuf) = 2

\* ======================================================= properties (app)
PressEnter == Press("Enter", NoChar)

\* C2: the number of writes issued equals the number of Press-Enter events
\* handled while a room is present; a write is issued only by the handling
\* of a Press-Enter, and carries (active_room, buffer text) as they are when
\* Enter is handled.
C2_WritesOnlyOnEnter ==
    /\ [](writes_issued = enters_with_room)
    /\ [][(writes_issued' # writes_issued \/ in_flight' \notin {in_flight, NoCommand}) =>
            /\ writes_issued' = writes_issued + 1
            /\ pc = "idle"
            /\ app_key' = PressEnter
            /\ active_room # NoRoom
            /\ in_flight' = [room |-> active_room, content |-> app_text]]_vars

\* C2 witness: a second submit is outstanding, carrying a non-empty text.
C2_Witness ==
    /\ pc = "writing"
    /\ writes_issued = 2
    /\ enters_with_room = 2
    /\ in_flight.room \in Rooms
    /\ Len(chars(in_flight.content)) = 2

\* C3: when the write of a submit completes, with Ok or with Err, the buffer
\* is empty with the cursor at 0 and nothing else of the state depends on
\* the outcome.
C3_ResetWhateverTheOutcome ==
    [][(pc = "writing" /\ pc' # "writing") =>
        /\ app_text' = <<>>
        /\ app_cursor_position' = 0
        /\ ~app_panicked'
        /\ pc' = "returned"
        /\ handled' = "LoseFocus"
        /\ in_flight' = NoCommand
        /\ UNCHANGED <<active_room, active_section, writes_issued>>]_vars

\* C3 witness: the write of a non-empty text completed with Err.
C3_Witness ==
    /\ pc = "returned"
    /\ write_result = "Err"
    /\ completed.content # <<>>
    /\ app_text = <<>>
    /\ app_cursor_position = 0

\* C4: Press-Enter on the focused input box with no active room attempts no
\* write, and once the key is dealt with the buffer is empty, the cursor is
\* at 0 and no section is focused.
C4_EnterWithoutRoom ==
    [][/\ (pc = "idle" /\ app_key' = PressEnter /\ active_room = NoRoom) =>
            /\ writes_issued' = writes_issued
            /\ in_flight' = NoCommand
            /\ pc' = "returned"
            /\ handled' = "LoseFocus"
       /\ (pc = "returned" /\ app_key = PressEnter /\ write_result = "none") =>
            /\ app_text' = <<>>
            /\ app_cursor_position' = 0
            /\ active_section' = NoSection
            /\ writes_issued' = writes_issued
            /\ in_flight' = NoCommand]_vars

\* C4 witness: Enter was handled with no active room and a non-empty buffer.
C4_Witness ==
    /\ pc = "returned"
    /\ app_key = PressEnter
    /\ active_room = NoRoom
    /\ write_result = "none"
    /\ writes_issued = 0
    /\ app_text # <<>>

\* C5: every Press-Enter handled by the focused input box returns LoseFocus
\* and, given that the outstanding write completes, leads to no section
\* being focused.
C5_EnterEndsSession ==
    /\ []((pc = "returned" /\ app_key = PressEnter) => handled = "LoseFocus")
    /\ [][(pc # "idle" /\ app_key = PressEnter /\ pc' = "idle") =>
            active_section' = NoSection]_vars
    /\ (app_key = PressEnter) ~> (pc = "idle" /\ active_section = NoSection)

\* C5 witness: Enter is being handled and its write is outstanding.
C5_Witness ==
    /\ pc = "writing"
    /\ app_key = PressEnter
    /\ active_section = "MessageInput"
    /\ in_flight # NoCommand


\* ==================================================== properties (rendering)
\* cursor_display_column() of a buffer: the display widths of the codepoints
\* before the cursor.
cursor_display_column(text, cursor) == SumWidths(Before(chars(text), cursor))

\* The ui_management render path meets C12 given that its caller sets
\* show_cursor exactly when the widget is the active section: the cursor is
\* emitted iff show_cursor, at area.x + 1 + cursor_display_column().
Ui_RenderCursorColumn ==
    \A x \in RectX : \A show \in BOOLEAN :
        LET c == ui_render_cursor(UiBuf, x, show)
        IN  /\ c.set <=> show
            /\ c.set => c.x = x + 1 + cursor_display_column(ui_text, ui_cursor_position)

\* C12: in every render path a terminal cursor position is emitted only when
\* the input widget is the active section, and its column is
\* rectangle.x + 1 + cursor_display_column(), never computed from the raw
\* cursor_position; stated of render_app_too_frame.
C12_CursorAtDisplayColumn ==
    \A x \in RectX :
        LET c == render_app_too_frame_cursor(active_section, AppBuf, x)
        IN  /\ c.set => active_section = "MessageInput"
            /\ c.set => c.x = x + 1 + cursor_display_column(app_text, app_cursor_position)

\* C13: the border of section S is Yellow if S is the active section (also
\* when S is the last hovered one), else Blue if S is the last hovered
\* section, else Reset; at most one section is Yellow.
C13_BorderEmphasis ==
    LET color(S) == calculate_border_color(active_section, last_hovered_section, S)
    IN  /\ \A S \in Sections :
            color(S) = IF active_section = S THEN "Yellow"
                       ELSE IF last_hovered_section = S THEN "Blue"
                       ELSE "Reset"
        /\ Cardinality({S \in Sections : color(S) = "Yellow"}) <= 1

\* C13 witness: the active section is also the last hovered one and is drawn
\* Yellow, the other section Reset.
C13_Witness ==
    /\ active_section = "MessageInput"
    /\ last_hovered_section = "MessageInput"
    /\ calculate_border_color(active_section, last_hovered_section, "MessageInput") = "Yellow"
    /\ calculate_border_color(active_section, last_hovered_section, "RoomList") = "Reset"


\* ============================================ properties (focus and writes)
\* A key event the handlers are to ignore: any kind but Press, or a Press of
\* a key code other than Enter, Char, Backspace, Left and Right.
NullKey(k) ==
    /\ k # NoKey
    /\ \/ k.kind # "Press"
       \/ k.code.code \notin {"Enter", "Char", "Backspace", "Left", "Right"}

\* C14: a key event of a kind other than Press, whatever its key code, and
\* a Press of a key code other than Enter, Char, Backspace, Left and Right,
\* leave text and cursor_position of both input boxes unchanged, issue no
\* write and request no focus change.
C14_NullKeyEvents ==
    [][(pc = "idle" /\ pc' # "idle" /\ NullKey(app_key')) =>
        /\ UNCHANGED <<ui_text, ui_cursor_position, ui_panicked>>
        /\ UNCHANGED <<app_text, app_cursor_position, app_panicked>>
        /\ UNCHANGED <<writes_issued, active_section, active_room>>
        /\ in_flight' = NoCommand
        /\ pc' = "returned"
        /\ handled' = "Ok"]_vars

\* C14 witness: a Release of Enter was handled by both boxes, which hold
\* text, while a room is active.
C14_Witness ==
    /\ pc = "returned"
    /\ app_key = [kind |-> "Release", code |-> [code |-> "Enter", ch |-> NoChar]]
    /\ ui_last_op.op = "NotPress"
    /\ active_room # NoRoom
    /\ app_text # <<>>
    /\ ui_text # <<>>
    /\ handled = "Ok"
    /\ writes_issued = 0

\* reset() of the ui InputBox leaves text = "" and cursor_position = 0.
Ui_ResetClears ==
    LastKeyIs(OpReset) => (ui_text = <<>> /\ ui_cursor_position = 0)

\* C15: the loss of the focus (deactivate) leaves text = "" and
\* cursor_position = 0 whatever the buffer held; activate leaves
\* (text, cursor_position) unchanged; so the buffer is empty whenever the
\* input box is not focused and at the start of every focus session.
C15_NoTextAcrossSessions ==
    /\ [](active_section # "MessageInput" =>
            (app_text = <<>> /\ app_cursor_position = 0))
    /\ [][(active_section = "MessageInput" /\ active_section' # "MessageInput") =>
            (app_text' = <<>> /\ app_cursor_position' = 0)]_vars
    /\ [][(active_section # "MessageInput" /\ active_section' = "MessageInput") =>
            /\ UNCHANGED <<app_text, app_cursor_position>>
            /\ app_text' = <<>>
            /\ app_cursor_position' = 0]_vars

\* C15 witness: a focus session starts with the empty buffer after the
\* previous one ended with text in the buffer.
C15_Witness ==
    /\ deactivated_text
    /\ active_section = "MessageInput"
    /\ pc = "idle"
    /\ app_text = <<>>
    /\ app_cursor_position = 0

\* C16: at most one write is outstanding; a write is started only when every
\* earlier write has completed, so writes complete in submit order.
C16_SingleOutstandingWrite ==
    /\ [](writes_issued - writes_completed \in {0, 1})
    /\ []((pc = "writing") <=> (writes_issued - writes_completed = 1))
    /\ []((pc = "writing") <=> (in_flight # NoCommand))
    /\ [][writes_issued' # writes_issued =>
            /\ writes_issued = writes_completed
            /\ in_flight = NoCommand
            /\ writes_issued' = writes_issued + 1]_vars
    /\ [][writes_completed' # writes_completed =>
            /\ writes_completed' = writes_issued
            /\ completed' = in_flight]_vars

\* C16 witness: the write of a second submit is outstanding, started after
\* the write of the first one completed.
C16_Witness ==
    /\ pc = "writing"
    /\ writes_issued = 2
    /\ writes_completed = 1
    /\ in_flight # NoCommand

\* C17: in app::InputBox cursor_position never exceeds the number of
\* codepoints of text, also when text holds characters of several bytes.
C17_AppCursorWithinCodepoints ==
    app_cursor_position <= Len(chars(app_text))

\* C18: in app::InputBox the offset at which enter_char inserts
\* (cursor_position) is at most the byte length of text and on a character
\* boundary, and the insertion never panics.
C18_InsertOnCharBoundary ==
    /\ app_cursor_position <= Len(app_text)
    /\ is_char_boundary(app_text, app_cursor_position)
    /\ ~app_panicked

\* C19: fed the same Press events of 1-byte Char, Backspace, Left and Right
\* from the empty buffer, the two input boxes hold the same
\* (text, cursor_position) after every step.
C19_SameEditorOnSingleBytes ==
    in_step =>
        /\ ui_text = app_text
        /\ ui_cursor_position = app_cursor_position
        /\ ~ui_panicked
        /\ ~app_panicked

\* C19 witness: "a", Left, "b" were typed into both boxes, which hold "ba"
\* with the cursor after the "b".
C19_Witness ==
    /\ in_step
    /\ app_key = Press("Char", "b")
    /\ ui_snapshot = <<encode_utf8("a"), 0>>
    /\ chars(app_text) = <<"b", "a">>
    /\ app_cursor_position = 1
    /\ chars(ui_text) = <<"b", "a">>
    /\ ui_cursor_position = 1

\* C20: while a write is outstanding no key event is handled and the buffer
\* is not mutated: the only step is the completion of the write, which
\* clears exactly the text that was sent.
C20_NoKeyWhileWriting ==
    /\ [](pc = "writing" =>
            /\ app_key = PressEnter
            /\ in_flight.content = app_text
            /\ ~ENABLED AppHandleKeyEvent)
    /\ [][pc = "writing" =>
            /\ pc' = "returned"
            /\ app_key' = app_key
            /\ completed' = in_flight
            /\ completed'.content = app_text
            /\ app_text' = <<>>
            /\ app_cursor_position' = 0]_vars

\* C20 witness: the write of a two-character text completed with Ok and the
\* buffer was cleared.
C20_Witness ==
    /\ pc = "returned"
    /\ write_result = "Ok"
    /\ writes_completed = 1
    /\ Len(chars(completed.content)) = 2
    /\ app_text = <<>>

=============================================================================
